---- MODULE Spec2Model ----
(***************************************************************************)
(* NoiseBox: the playback scheduling tree driven by medialogic.Controller  *)
(* (InterruptOracle -> SwitchOracle -> ChainOracle -> Playlist/Repeating   *)
(* oracles) and the AudioDevices native-handle lifecycle.                  *)
(*                                                                         *)
(* medialogic/controller.py and medialogic/media_library.py are modelled   *)
(* from their code.  medialogic/oracles.py and medialogic/player.py are    *)
(* not among the source files; the oracle classes and Player.next_song are *)
(* modelled from the design document (sections 3 and 4.1).                 *)
(***************************************************************************)
EXTENDS Integers, Sequences, FiniteSets, TLC

VARIABLES
    heap,               \* the ChainOracle objects alive, by identity
    queueing_oracle,    \* Controller.queueing_oracle: identity of a chain
    switch_oracle,      \* SwitchOracle: identity of the oracle it delegates to
    interrupt_oracle,   \* InterruptOracle: the pending interrupt items (FIFO)
    last,               \* the most recent call, its arguments and result
    script,             \* what the calls made so far say the chain still owes
    calls,              \* recorded runs: the calls that built the chain
    trace,              \* recorded runs: the results of the pulls made so far
    devices,            \* Controller.devices: the AudioDevices object
    native,             \* libvlc: the device lists handed out and released
    dev_ret,            \* the most recent device call and how it ended
    enumerated,         \* the device names, in native order, devices holds
    frees,              \* free() calls made so far on the object in devices
    asked,              \* the most recent device call: argument, validity
    library,            \* MediaLibrary: song_map and playlists, by reference
    objects,            \* the Song and list objects alive, by identity
    held,               \* the object a caller was handed by a get function
    lib_ret,            \* the most recent library call and how it ended
    pc,                 \* Controller.play: the line it is to run next
    play_songs          \* Controller.play: its local variable songs

treevars == <<heap, queueing_oracle, switch_oracle, interrupt_oracle, last,
              script, calls, trace, pc, play_songs>>

devvars == <<devices, native, dev_ret, enumerated, frees, asked>>

libvars == <<library, objects, held, lib_ret>>

vars == <<treevars, devvars, libvars>>

----------------------------------------------------------------------------
(* Bounds of the model. *)

MaxChain == 2        \* children appended to one chain
MaxTimes == 1        \* largest finite repeat count passed to queue_repeat
MaxInterrupts == 2   \* pending interrupt items
MaxTrace == 6        \* pulls recorded in a recorded run
MaxDevices == 2      \* devices in one native enumeration
MaxEnums == 3        \* native enumerations made over a run
MaxFrees == 2        \* free() calls made on one AudioDevices object
MaxEdits == 2        \* changes a caller makes to one object it was handed
MaxPlaylist == 2     \* songs in one stored playlist

(* Python's None: as the result of a pull, "nothing left to play". *)
None == "None"
(* queue_repeat(alias, times=None): repeat forever. *)
Unlimited == -1

(* The repeat counts queue_repeat is called with: forever and the largest; *)
(* the recorded runs try every count from 0 up to the largest.             *)
Times == {Unlimited, MaxTimes}

TimesRecorded == {Unlimited} \cup (0 .. MaxTimes)

----------------------------------------------------------------------------
(* medialogic/media_library.py: the library the controller resolves        *)
(* aliases in.  Three songs, one two-song playlist, one playlist just      *)
(* created (empty).                                                        *)

song_map ==
    [a \in {"a", "b", "c"} |-> [alias |-> a, uri |-> a \o ".mp3"]]

playlists ==
    [p \in {"ab", "none"} |-> IF p = "ab" THEN <<"a", "b">> ELSE <<>>]

(* The files on disk (os.path.isfile). *)
files == {"a.mp3", "b.mp3", "c.mp3"}

(* The aliases the operations are called with: a song, a playlist, the    *)
(* empty playlist; the recorded runs also try "zz", which is in neither    *)
(* map.                                                                    *)
Aliases == {"c", "ab", "none"}

AliasesRecorded == Aliases \cup {"zz"}

NotFound == [ok |-> FALSE, songs |-> <<>>]

(* Song.__init__: _check_file_exists(uri) raises NotFoundException. *)
check_file_exists(uri) == uri \in files

(* MediaLibrary.get_song: a fresh Song(alias, uri) or NotFoundException. *)
get_song(song_alias) ==
    IF song_alias \notin DOMAIN song_map
    THEN [ok |-> FALSE, uri |-> ""]
    ELSE LET song == song_map[song_alias]
         IN  [ok |-> check_file_exists(song.uri), uri |-> song.uri]

(* MediaLibrary.get_playlist: a copy of the stored list. *)
get_playlist(playlist_name) ==
    IF playlist_name \notin DOMAIN playlists
    THEN NotFound
    ELSE [ok |-> TRUE, songs |-> playlists[playlist_name]]

(* MediaLibrary.get: playlists first, then single songs; the URIs. *)
get(name) ==
    IF name \in DOMAIN playlists
    THEN LET pl == get_playlist(name).songs
         IN  IF \A i \in 1 .. Len(pl) : get_song(pl[i]).ok
             THEN [ok |-> TRUE,
                   songs |-> [i \in 1 .. Len(pl) |-> get_song(pl[i]).uri]]
             ELSE NotFound
    ELSE IF name \notin DOMAIN playlists /\ name \notin DOMAIN song_map
    THEN NotFound
    ELSE LET s == get_song(name)
         IN  IF s.ok THEN [ok |-> TRUE, songs |-> <<s.uri>>] ELSE NotFound

----------------------------------------------------------------------------
(* medialogic/media_library.py, by reference.  The library's dicts hold    *)
(* references to Song and list objects; a get function hands the caller a  *)
(* reference too.  objects.songs and objects.lists give each object's      *)
(* present value.  A caller holds at most one object it was handed, so a   *)
(* newly made one always goes by the identity Returned.                    *)

SongId(alias) == "song:" \o alias

ListId(name) == "list:" \o name

Returned == "ret"

(* Song(alias, uri, description="") *)
Song(alias, uri) == [alias |-> alias, uri |-> uri, description |-> ""]

(* The library of the runs, as MediaLibrary holds it. *)
LibraryInit ==
    [song_map |-> [a \in DOMAIN song_map |-> SongId(a)],
     playlists |-> [n \in DOMAIN playlists |-> ListId(n)]]

ObjectsInit ==
    [songs |-> [id \in {SongId(a) : a \in DOMAIN song_map} |->
                   LET a == CHOOSE b \in DOMAIN song_map : id = SongId(b)
                   IN  Song(song_map[a].alias, song_map[a].uri)],
     lists |-> [id \in {ListId(n) : n \in DOMAIN playlists} |->
                   LET n == CHOOSE m \in DOMAIN playlists : id = ListId(m)
                   IN  playlists[n]]]

(* What a library call gives back: raised names the exception ("" when it  *)
(* returned), ref the object returned ("" for None), objs the objects      *)
(* afterwards.                                                             *)
Raised(exception, objs) ==
    [raised |-> exception, ref |-> "", objs |-> objs]

(* The caller lets go of the object it held: it is collected. *)
Dropped(objs) ==
    [songs |-> [id \in DOMAIN objs.songs \ {Returned} |-> objs.songs[id]],
     lists |-> [id \in DOMAIN objs.lists \ {Returned} |-> objs.lists[id]]]

NewSong(objs, song) ==
    [raised |-> "", ref |-> Returned,
     objs |-> [Dropped(objs) EXCEPT !.songs = (Returned :> song) @@ @]]

NewList(objs, list) ==
    [raised |-> "", ref |-> Returned,
     objs |-> [Dropped(objs) EXCEPT !.lists = (Returned :> list) @@ @]]

(* MediaLibrary.get_song: Song(alias=song.alias, uri=song.uri), a new      *)
(* object; Song.__init__ checks the file.                                  *)
get_song_ref(lib, objs, song_alias) ==
    IF song_alias \notin DOMAIN lib.song_map
    THEN Raised("NotFoundException", objs)
    ELSE LET song == objs.songs[lib.song_map[song_alias]]
         IN  IF ~check_file_exists(song.uri)
             THEN Raised("NotFoundException", objs)
             ELSE NewSong(objs, Song(song.alias, song.uri))

(* Variant: get_playlist returns the stored list itself. *)
get_playlist_ref_stored(lib, objs, playlist_name) ==
    IF playlist_name \notin DOMAIN lib.playlists
    THEN Raised("NotFoundException", objs)
    ELSE [raised |-> "", ref |-> lib.playlists[playlist_name],
          objs |-> Dropped(objs)]

(* MediaLibrary.get_playlist: list(self.playlists[playlist_name]), a copy. *)
get_playlist_ref(lib, objs, playlist_name) ==
    IF playlist_name \notin DOMAIN lib.playlists
    THEN Raised("NotFoundException", objs)
    ELSE NewList(objs, objs.lists[lib.playlists[playlist_name]])

(* MediaLibrary.get: a new list of the URIs, playlists first. *)
get_ref(lib, objs, name) ==
    IF name \in DOMAIN lib.playlists
    THEN LET got == get_playlist_ref(lib, objs, name)
             pl == got.objs.lists[got.ref]
             song(i) == get_song_ref(lib, objs, pl[i])
         IN  IF \A i \in 1 .. Len(pl) : song(i).raised = ""
             THEN NewList(objs, [i \in 1 .. Len(pl) |->
                                    song(i).objs.songs[song(i).ref].uri])
             ELSE Raised("NotFoundException", objs)
    ELSE IF name \notin DOMAIN lib.playlists /\ name \notin DOMAIN lib.song_map
    THEN Raised("NotFoundException", objs)
    ELSE LET song == get_song_ref(lib, objs, name)
         IN  IF song.raised = ""
             THEN NewList(objs, <<song.objs.songs[song.ref].uri>>)
             ELSE song

(* list.remove(x): the list without the first x. *)
RemoveFirst(list, x) ==
    LET i == CHOOSE k \in 1 .. Len(list) :
                 list[k] = x /\ \A j \in 1 .. k - 1 : list[j] # x
    IN  SubSeq(list, 1, i - 1) \o SubSeq(list, i + 1, Len(list))

(* What a call that changes the library gives back. *)
Changed(exception, lib, objs) ==
    [raised |-> exception, lib |-> lib, objs |-> objs]

(* MediaLibrary.create_playlist: a new empty list under the name. *)
create_playlist(lib, objs, playlist_name, expect_overwrite) ==
    IF playlist_name = ""
    THEN Changed("IllegalArgument", lib, objs)
    ELSE IF playlist_name \in DOMAIN lib.playlists /\ ~expect_overwrite
    THEN Changed("AlreadyExistsException", lib, objs)
    ELSE Changed("",
             [lib EXCEPT !.playlists =
                 (playlist_name :> ListId(playlist_name)) @@ @],
             [objs EXCEPT !.lists = (ListId(playlist_name) :> <<>>) @@ @])

(* MediaLibrary.add_song_to_playlist: append to the stored list. *)
add_song_to_playlist(lib, objs, song_alias, playlist_name) ==
    IF playlist_name \notin DOMAIN lib.playlists
    THEN Changed("NotFoundException", lib, objs)
    ELSE IF song_alias \notin DOMAIN lib.song_map
    THEN Changed("NotFoundException", lib, objs)
    ELSE Changed("", lib,
             [objs EXCEPT !.lists[lib.playlists[playlist_name]] =
                 Append(@, song_alias)])

(* MediaLibrary.remove_from_playlist: remove() on the list get_playlist    *)
(* returns.  A list made for this call is let go of when it returns; the   *)
(* caller keeps the object it held.                                        *)
remove_from_playlist(lib, objs, song_alias, playlist_name) ==
    LET got == get_playlist_ref(lib, objs, playlist_name)
    IN  IF got.raised # ""
        THEN Changed(got.raised, lib, objs)
        ELSE LET list == got.objs.lists[got.ref]
             IN  IF \A k \in 1 .. Len(list) : list[k] # song_alias
                 THEN Changed("ValueError", lib, objs)
                 ELSE IF got.ref = Returned
                 THEN Changed("", lib, objs)
                 ELSE Changed("", lib,
                          [objs EXCEPT !.lists[got.ref] =
                              RemoveFirst(list, song_alias)])

----------------------------------------------------------------------------
(* medialogic/oracles.py, from the design document.  Every oracle answers  *)
(* advance with [src |-> the oracle afterwards, out |-> item or None].     *)

(* PlaylistOracle(songs): a fixed sequence consumed once. *)
PlaylistOracle(songs) ==
    [kind |-> "playlist", songs |-> songs, idx |-> 0, times |-> 0]

(* RepeatingOracle(songs, times): replayed times more times, or forever. *)
RepeatingOracle(songs, times) ==
    [kind |-> "repeat", songs |-> songs, idx |-> 0, times |-> times]

PlaylistAdvance(o) ==
    IF o.idx < Len(o.songs)
    THEN [src |-> [o EXCEPT !.idx = @ + 1], out |-> o.songs[o.idx + 1]]
    ELSE [src |-> o, out |-> None]

(* Variant: no check for the empty sequence; the wrap-around then reads    *)
(* songs[0] of an empty list.                                              *)
RepeatingAdvance_unguarded(o) ==
    IF o.idx < Len(o.songs)
    THEN [src |-> [o EXCEPT !.idx = @ + 1], out |-> o.songs[o.idx + 1]]
    ELSE IF o.times = Unlimited \/ o.times > 0
    THEN [src |-> [o EXCEPT !.idx = 1,
                            !.times = IF @ = Unlimited THEN @ ELSE @ - 1],
          out |-> IF o.songs = <<>> THEN "IndexError" ELSE o.songs[1]]
    ELSE [src |-> o, out |-> None]

RepeatingAdvance(o) ==
    IF Len(o.songs) = 0
    THEN [src |-> o, out |-> None]
    ELSE IF o.idx < Len(o.songs)
    THEN [src |-> [o EXCEPT !.idx = @ + 1], out |-> o.songs[o.idx + 1]]
    ELSE IF o.times = Unlimited
    THEN [src |-> [o EXCEPT !.idx = 1], out |-> o.songs[1]]
    ELSE IF o.times > 0
    THEN [src |-> [o EXCEPT !.idx = 1, !.times = @ - 1], out |-> o.songs[1]]
    ELSE [src |-> o, out |-> None]

LeafAdvance(o) ==
    IF o.kind = "playlist" THEN PlaylistAdvance(o) ELSE RepeatingAdvance(o)

(* ChainOracle(): an ordered list of child oracles and a cursor. *)
ChainOracle == [oracles |-> <<>>, idx |-> 0]

(* ChainOracle.add: append at the tail. *)
ChainAdd(chain, o) == [chain EXCEPT !.oracles = Append(@, o)]

(* ChainOracle advance: ask the child at the cursor; when it is exhausted  *)
(* move the cursor to the next child and ask again; nothing when no child  *)
(* is left.  The length is read on every call.                             *)
(* Variant: a chain that, asked when no child is left, starts over. *)
RECURSIVE ChainAdvance_restarting(_)
ChainAdvance_restarting(chain) ==
    IF chain.idx >= Len(chain.oracles)
    THEN [src |-> [chain EXCEPT
                      !.idx = 0,
                      !.oracles = [k \in DOMAIN @ |-> [@[k] EXCEPT !.idx = 0]]],
          out |-> None]
    ELSE LET r == LeafAdvance(chain.oracles[chain.idx + 1])
             stepped == [chain EXCEPT !.oracles[chain.idx + 1] = r.src]
         IN  IF r.out # None
             THEN [src |-> stepped, out |-> r.out]
             ELSE ChainAdvance_restarting([stepped EXCEPT !.idx = @ + 1])

RECURSIVE ChainAdvance(_)
ChainAdvance(chain) ==
    IF chain.idx >= Len(chain.oracles)
    THEN [src |-> chain, out |-> None]
    ELSE LET r == LeafAdvance(chain.oracles[chain.idx + 1])
             stepped == [chain EXCEPT !.oracles[chain.idx + 1] = r.src]
         IN  IF r.out # None
             THEN [src |-> stepped, out |-> r.out]
             ELSE ChainAdvance([stepped EXCEPT !.idx = @ + 1])

----------------------------------------------------------------------------
(* The tree the controller owns, as one value:                             *)
(*   heap, queueing_oracle, switch_oracle, interrupt_oracle.               *)

(* SwitchOracle(): no oracle set yet. *)
NoOracle == -1

(* The chain identities.  An identity only tells whether two references   *)
(* lead to the same object, so a new object takes the least one not in     *)
(* use, and when the objects no reference leads to are collected the       *)
(* survivors are renumbered from 0 in their order.                         *)
ChainIds == 0 .. 2

new_id(c) == CHOOSE i \in ChainIds \ DOMAIN c.heap :
                 \A j \in ChainIds \ DOMAIN c.heap : i <= j

collect(c) ==
    LET kept == DOMAIN c.heap \cap {c.queueing_oracle, c.switch_oracle}
        rank(i) == Cardinality({j \in kept : j < i})
        old(n) == CHOOSE i \in kept : rank(i) = n
        ref(i) == IF i \in kept THEN rank(i) ELSE i
    IN  [c EXCEPT !.heap = [n \in 0 .. Cardinality(kept) - 1
                            |-> c.heap[old(n)]],
                  !.queueing_oracle = ref(@),
                  !.switch_oracle = ref(@)]

(* SwitchOracle.set_oracle: replace the active oracle wholesale. *)
set_oracle(c, id) == collect([c EXCEPT !.switch_oracle = id])

(* SwitchOracle advance: delegate to the active oracle, nothing if unset. *)
SwitchAdvance(c) ==
    IF c.switch_oracle = NoOracle
    THEN [src |-> c, out |-> None]
    ELSE LET r == ChainAdvance(c.heap[c.switch_oracle])
         IN  [src |-> [c EXCEPT !.heap[c.switch_oracle] = r.src],
              out |-> r.out]

(* InterruptOracle.interrupt: enqueue items to play before anything else. *)
interrupt(c, items) == [c EXCEPT !.interrupt_oracle = @ \o items]

(* Variant: clearing also puts the active chain's cursor back. *)
clear_interrupt_rewinding(c) ==
    [c EXCEPT !.interrupt_oracle = <<>>, !.heap[c.switch_oracle].idx = 0]

(* InterruptOracle.clear_interrupt: drop the pending interrupt items. *)
clear_interrupt(c) == [c EXCEPT !.interrupt_oracle = <<>>]

(* Variant: an interrupt item is returned in place of the fallback's next *)
(* item, which is fetched and dropped.                                     *)
InterruptAdvance_consuming(c) ==
    IF c.interrupt_oracle # <<>>
    THEN [src |-> [SwitchAdvance(c).src EXCEPT !.interrupt_oracle = Tail(@)],
          out |-> Head(c.interrupt_oracle)]
    ELSE SwitchAdvance(c)

(* InterruptOracle advance: the front interrupt item if any, else the      *)
(* fallback (the switch oracle).                                           *)
InterruptAdvance(c) ==
    IF c.interrupt_oracle # <<>>
    THEN [src |-> [c EXCEPT !.interrupt_oracle = Tail(@)],
          out |-> Head(c.interrupt_oracle)]
    ELSE SwitchAdvance(c)

(* Variant: the player is handed the switch oracle as its root. *)
RootAdvance_switch(c) == SwitchAdvance(c)

(* Controller.__init__: the player is handed the interrupt oracle, whose   *)
(* fallback is the switch oracle: the root of every pull.                  *)
RootAdvance(c) == InterruptAdvance(c)

(* Player.next_song: fetch one item from the root and play it (None: stop). *)
next_song(c) == RootAdvance(c)

(* Controller.__init__ *)
ControllerInit ==
    LET made == [heap |-> (0 :> ChainOracle),
                 queueing_oracle |-> 0,
                 switch_oracle |-> NoOracle,
                 interrupt_oracle |-> <<>>]
    IN  set_oracle(made, made.queueing_oracle)

(* Controller.play, line by line after the alias is resolved. *)
play_new_chain(c) ==
    LET id == new_id(c)
    IN  [c EXCEPT !.heap = (id :> ChainOracle) @@ @, !.queueing_oracle = id]

play_install(c) == set_oracle(c, c.queueing_oracle)

play_add(c, songs) ==
    [c EXCEPT !.heap[c.queueing_oracle] = ChainAdd(@, PlaylistOracle(songs))]

play_clear(c) == clear_interrupt(c)

play_fetch(c) == next_song(c)

(* Variant: play appends to the chain in place instead of replacing it. *)
play_keep_chain(c, songs) == play_fetch(play_clear(play_add(c, songs)))

(* Variant: play without its clear_interrupt() line. *)
play_keep_interrupts(c, songs) ==
    play_fetch(play_add(play_install(play_new_chain(c)), songs))

(* Variant: play without its set_oracle line. *)
play_uninstalled(c, songs) ==
    play_fetch(play_clear(play_add(play_new_chain(c), songs)))

play(c, songs) ==
    play_fetch(play_clear(play_add(play_install(play_new_chain(c)), songs)))

(* Variant: queue puts the new playlist in front of the chain's children. *)
queue_front(c, songs) ==
    [c EXCEPT !.heap[c.queueing_oracle].oracles =
                  <<PlaylistOracle(songs)>> \o @]

(* Variant: queue appends a repeating oracle (queue_repeat's line, times   *)
(* left at its default).                                                   *)
queue_as_repeat(c, songs) ==
    [c EXCEPT !.heap[c.queueing_oracle] =
                  ChainAdd(@, RepeatingOracle(songs, Unlimited))]

(* Variant: queue starts a chain of its own, which the switch never sees. *)
queue_detached(c, songs) == play_add(play_new_chain(c), songs)

(* Controller.queue, after the alias is resolved. *)
queue(c, songs) ==
    [c EXCEPT !.heap[c.queueing_oracle] = ChainAdd(@, PlaylistOracle(songs))]

(* Variant: queue_repeat does not pass times on (the constructor's default). *)
queue_repeat_untimed(c, songs, times) ==
    [c EXCEPT !.heap[c.queueing_oracle] =
                  ChainAdd(@, RepeatingOracle(songs, Unlimited))]

(* Variant: queue_repeat takes times=None for "no repeats". *)
queue_repeat_none_as_zero(c, songs, times) ==
    [c EXCEPT !.heap[c.queueing_oracle] =
                  ChainAdd(@, RepeatingOracle(songs,
                                  IF times = Unlimited THEN 0 ELSE times))]

(* Controller.queue_repeat, after the alias is resolved. *)
queue_repeat(c, songs, times) ==
    [c EXCEPT !.heap[c.queueing_oracle] =
                  ChainAdd(@, RepeatingOracle(songs, times))]

----------------------------------------------------------------------------
(* medialogic/controller.py: AudioDevice and AudioDevices over libvlc.     *)
(* libvlc hands out a device list as a linked list of records (device,     *)
(* description, next) under a handle, the pointer to its first record; a   *)
(* list is a sequence here, its tail the rest of the linked list.          *)

FREED_ERROR_STRING == "Invalid object - already freed."

DeviceNames == {"hw0", "hw1", "hw2"}

(* What the machine may enumerate: up to MaxDevices devices, each once. *)
DeviceLists ==
    {l \in UNION {[1 .. n -> DeviceNames] : n \in 0 .. MaxDevices} :
        \A i, j \in 1 .. Len(l) : i # j => l[i] # l[j]}

NativeRecord(name) ==
    [device |-> name, description |-> "Speakers (" \o name \o ")"]

(* vlc.libvlc_audio_output_device_enum: a new list under a new handle. *)
libvlc_audio_output_device_enum(nat, names) ==
    [nat EXCEPT !.next = @ + 1, !.live = @ \cup {nat.next}]

(* vlc.libvlc_audio_output_device_list_release(ptr) *)
libvlc_audio_output_device_list_release(nat, ptr) ==
    [nat EXCEPT !.live = @ \ {ptr}, !.released = Append(@, ptr)]

(* AudioDevice(audio_output_device): keeps the record's contents. *)
AudioDevice(record) == record

(* Python's None where a device is expected. *)
NoDevice == [device |-> None, description |-> None]

(* AudioDevices._build_devices: walk the linked list into a Python list. *)
RECURSIVE build_devices(_)
build_devices(cur) ==
    IF cur = <<>> THEN <<>>
    ELSE <<AudioDevice(Head(cur))>> \o build_devices(Tail(cur))

(* The name map: None (default) first, then each device under its name, a  *)
(* later device replacing an earlier one of the same name.                 *)
RECURSIVE name_map(_, _)
name_map(map, device_list) ==
    IF device_list = <<>> THEN map
    ELSE name_map((Head(device_list).device :> Head(device_list)) @@ map,
                  Tail(device_list))

(* The same with the default entry left without a device. *)
AudioDevices_no_default(ptr, records) ==
    LET device_list == build_devices(records)
        user_device_map ==
            [idx \in 0 .. Len(device_list) - 1 |-> device_list[idx + 1]]
    IN  [device_list_ptr |-> ptr,
         user_device_map |-> user_device_map,
         device_name_map |-> name_map((None :> NoDevice), device_list),
         valid |-> TRUE]

(* AudioDevices.__init__(audio_device_enum) *)
AudioDevices(ptr, records) ==
    LET device_list == build_devices(records)
        user_device_map ==
            [idx \in 0 .. Len(device_list) - 1 |-> device_list[idx + 1]]
        default == IF 0 \in DOMAIN user_device_map
                   THEN user_device_map[0] ELSE NoDevice
    IN  [device_list_ptr |-> ptr,
         user_device_map |-> user_device_map,
         device_name_map |-> name_map((None :> default), device_list),
         valid |-> TRUE]

(* How a call ended: raised names the exception ("" when it returned),     *)
(* device and text are what it returned.                                   *)
Ended(op, raised, device, text) ==
    [op |-> op, raised |-> raised, device |-> device, text |-> text]

(* free without the valid() guard: releases on every call. *)
free_unguarded(d, nat) ==
    [devices |-> [d EXCEPT !.valid = FALSE],
     native |-> libvlc_audio_output_device_list_release(
                    nat, d.device_list_ptr)]

(* AudioDevices.free *)
free(d, nat) ==
    IF d.valid
    THEN [devices |-> [d EXCEPT !.valid = FALSE],
          native |-> libvlc_audio_output_device_list_release(
                         nat, d.device_list_ptr)]
    ELSE [devices |-> d, native |-> nat]

(* str(AudioDevice): the description, decoded. *)
device_str(device) == device.description

(* "\n".join of the lines. *)
RECURSIVE join_lines(_)
join_lines(lines) ==
    IF lines = <<>> THEN ""
    ELSE IF Len(lines) = 1 THEN lines[1]
    ELSE lines[1] \o "\n" \o join_lines(Tail(lines))

(* AudioDevices.__str__ *)
devices_str(d) ==
    IF ~d.valid
    THEN FREED_ERROR_STRING
    ELSE LET n == Cardinality(DOMAIN d.user_device_map)
             output == [k \in 1 .. n |->
                           "\t" \o ToString(k - 1) \o ": "
                                \o device_str(d.user_device_map[k - 1])]
         IN  "\n" \o join_lines(output)

(* device_for_index looking the index up before it looks at valid(). *)
device_for_index_lookup_first(d, index) ==
    IF index \notin DOMAIN d.user_device_map
    THEN Ended("device_for_index", "KeyError", NoDevice, "")
    ELSE IF ~d.valid
    THEN Ended("device_for_index", "UseAfterFreeException", NoDevice, "")
    ELSE Ended("device_for_index", "", d.user_device_map[index], "")

(* AudioDevices.device_for_index *)
device_for_index(d, index) ==
    IF ~d.valid
    THEN Ended("device_for_index", "UseAfterFreeException", NoDevice, "")
    ELSE IF index \notin DOMAIN d.user_device_map
    THEN Ended("device_for_index", "KeyError", NoDevice, "")
    ELSE Ended("device_for_index", "", d.user_device_map[index], "")

(* AudioDevices.device_from_device_name *)
device_from_device_name(d, device_name) ==
    IF device_name \notin DOMAIN d.device_name_map
    THEN Ended("device_from_device_name", "KeyError", NoDevice, "")
    ELSE Ended("device_from_device_name", "",
               d.device_name_map[device_name], "")

(* list_devices enumerating anew without freeing the old list. *)
list_devices_unfreed(d, nat, names) ==
    LET made == AudioDevices(nat.next,
                             [i \in 1 .. Len(names) |-> NativeRecord(names[i])])
    IN  [devices |-> made,
         native |-> libvlc_audio_output_device_enum(nat, names),
         ret |-> Ended("list_devices", "", NoDevice, devices_str(made))]

(* Controller.list_devices: free the old list, enumerate anew, render. *)
list_devices(d, nat, names) ==
    LET freed == free(d, nat)
        made == AudioDevices(freed.native.next,
                             [i \in 1 .. Len(names) |-> NativeRecord(names[i])])
    IN  [devices |-> made,
         native |-> libvlc_audio_output_device_enum(freed.native, names),
         ret |-> Ended("list_devices", "", NoDevice, devices_str(made))]

----------------------------------------------------------------------------
(* The state machine. *)

Ctl == [heap |-> heap,
        queueing_oracle |-> queueing_oracle,
        switch_oracle |-> switch_oracle,
        interrupt_oracle |-> interrupt_oracle]

(* The tree after one line of a method. *)
Put(c) ==
    /\ heap' = c.heap
    /\ queueing_oracle' = c.queueing_oracle
    /\ switch_oracle' = c.switch_oracle
    /\ interrupt_oracle' = c.interrupt_oracle
    /\ UNCHANGED <<devvars, libvars>>

(* The tree after a whole call, or a pull: play is where it was. *)
Install(c) ==
    /\ Put(c)
    /\ UNCHANGED <<pc, play_songs>>

(* What is remembered of a call: its name, whether it returned (ok) or     *)
(* raised NotFoundException, the item list it was given, the item a pull   *)
(* made by it fetched (NoPull when it pulls nothing), for play and         *)
(* clear_interrupt whether interrupt items were pending (stale), and for   *)
(* play whether the chain it replaced still had something to play (cut).   *)
NoPull == ""

Call(op, ok, songs, out) ==
    [op |-> op, ok |-> ok, songs |-> songs, out |-> out,
     stale |-> op \in {"play", "clear_interrupt"} /\ ok
                  /\ interrupt_oracle # <<>>,
     cut |-> op = "play" /\ ok /\ SwitchAdvance(Ctl).out # None]

(* The schedule the calls promise, kept apart from the tree: pre is the    *)
(* finite run of items still to come from the children appended so far,    *)
(* loop the sequence an unlimited repeat appended after them cycles        *)
(* through (empty: none was appended).  Children appended behind an        *)
(* unlimited repeat are never reached, so they add nothing.                *)
RECURSIVE Repeated(_, _)
Repeated(songs, n) == IF n = 0 THEN <<>> ELSE songs \o Repeated(songs, n - 1)

NoScript == [pre |-> <<>>, loop |-> <<>>]

Promise(sc, songs, times) ==
    IF sc.loop # <<>> THEN sc
    ELSE IF times = Unlimited THEN [sc EXCEPT !.loop = songs]
    ELSE [sc EXCEPT !.pre = @ \o Repeated(songs, times + 1)]

(* The item the schedule says the chain returns next, and the schedule     *)
(* after it.                                                               *)
Owed(sc) ==
    IF sc.pre # <<>> THEN Head(sc.pre)
    ELSE IF sc.loop # <<>> THEN Head(sc.loop)
    ELSE None

Paid(sc) ==
    IF sc.pre # <<>> THEN [sc EXCEPT !.pre = Tail(@)]
    ELSE IF sc.loop # <<>> THEN [sc EXCEPT !.loop = Tail(@) \o <<Head(@)>>]
    ELSE sc

(* Controller.__init__: a new tree; the device list is enumerated once. *)
NoNative == [next |-> 1, live |-> {}, released |-> <<>>]

InitTree ==
    /\ heap = ControllerInit.heap
    /\ queueing_oracle = ControllerInit.queueing_oracle
    /\ switch_oracle = ControllerInit.switch_oracle
    /\ interrupt_oracle = ControllerInit.interrupt_oracle
    /\ last = [op |-> "init", ok |-> TRUE, songs |-> <<>>, out |-> NoPull,
               stale |-> FALSE, cut |-> FALSE]
    /\ script = NoScript
    /\ calls = <<>>
    /\ trace = <<>>
    /\ pc = "idle"
    /\ play_songs = <<>>

InitDevices(names) ==
    /\ devices = AudioDevices(NoNative.next,
                     [i \in 1 .. Len(names) |-> NativeRecord(names[i])])
    /\ native = libvlc_audio_output_device_enum(NoNative, names)
    /\ dev_ret = Ended("init", "", NoDevice, "")
    /\ enumerated = names
    /\ frees = 0
    /\ asked = [valid |-> TRUE]

(* MediaLibrary as the runs find it; the caller holds nothing yet. *)
NoHeld == [kind |-> "none", ref |-> "", from |-> "", arg |-> "", edits |-> 0]

InitLibrary ==
    /\ library = LibraryInit
    /\ objects = ObjectsInit
    /\ held = NoHeld
    /\ lib_ret = [op |-> "init", raised |-> "", alias |-> "", name |-> ""]

(* The scheduling runs are made on a machine with one audio device. *)
Init == InitTree /\ InitDevices(<<"hw0">>) /\ InitLibrary

(* Variant: play makes and installs the new chain before it resolves the   *)
(* alias.                                                                  *)
Play_chain_first(song_alias) ==
    LET songs == get(song_alias)
        r == play(Ctl, songs.songs)
    IN  /\ last' = Call("play", songs.ok, songs.songs,
                        IF songs.ok THEN r.out ELSE NoPull)
        /\ Install(IF songs.ok THEN r.src
                   ELSE play_install(play_new_chain(Ctl)))
        /\ script' = IF songs.ok
                     THEN Paid(Promise(NoScript, songs.songs, 0))
                     ELSE script
        /\ UNCHANGED <<calls, trace>>

(* Controller.play(song_alias): NotFoundException leaves everything as is. *)
Play(song_alias) ==
    LET songs == get(song_alias)
        r == play(Ctl, songs.songs)
    IN  /\ last' = Call("play", songs.ok, songs.songs,
                        IF songs.ok THEN r.out ELSE NoPull)
        /\ Install(IF songs.ok THEN r.src ELSE Ctl)
        /\ script' = IF songs.ok
                     THEN Paid(Promise(NoScript, songs.songs, 0))
                     ELSE script
        /\ UNCHANGED <<calls, trace>>

(* Controller.queue(alias) *)
DoQueue(alias) ==
    LET songs == get(alias)
    IN  /\ Len(heap[queueing_oracle].oracles) < MaxChain
        /\ last' = Call("queue", songs.ok, songs.songs, NoPull)
        /\ Install(IF songs.ok THEN queue(Ctl, songs.songs) ELSE Ctl)
        /\ script' = IF songs.ok THEN Promise(script, songs.songs, 0)
                     ELSE script

Queue(alias) == DoQueue(alias) /\ UNCHANGED <<calls, trace>>

(* Controller.queue_repeat(alias, times) *)
DoQueueRepeat(alias, times) ==
    LET songs == get(alias)
    IN  /\ Len(heap[queueing_oracle].oracles) < MaxChain
        /\ last' = Call("queue_repeat", songs.ok, songs.songs, NoPull)
        /\ Install(IF songs.ok THEN queue_repeat(Ctl, songs.songs, times)
                   ELSE Ctl)
        /\ script' = IF songs.ok THEN Promise(script, songs.songs, times)
                     ELSE script

QueueRepeat(alias, times) ==
    DoQueueRepeat(alias, times) /\ UNCHANGED <<calls, trace>>

(* The item lists interrupt is called with: what the library resolves. *)
InterruptItems == {get(a).songs : a \in {b \in Aliases : get(b).ok}}

(* interrupt(items) on the interrupt oracle *)
Interrupt(items) ==
    /\ Len(interrupt_oracle) + Len(items) <= MaxInterrupts
    /\ last' = Call("interrupt", TRUE, items, NoPull)
    /\ Install(interrupt(Ctl, items))
    /\ UNCHANGED <<script, calls, trace>>

(* clear_interrupt() on the interrupt oracle *)
ClearInterrupt ==
    /\ last' = Call("clear_interrupt", TRUE, <<>>, NoPull)
    /\ Install(clear_interrupt(Ctl))
    /\ UNCHANGED <<script, calls, trace>>

(* The player's track-ended event: one pull from the root. *)
Pull ==
    LET r == next_song(Ctl)
    IN  /\ last' = Call("advance", TRUE, <<>>, r.out)
        /\ Install(r.src)
        /\ script' = IF interrupt_oracle # <<>> THEN script ELSE Paid(script)

Advance == Pull /\ UNCHANGED <<calls, trace>>

Next ==
    \/ \E a \in Aliases : Play(a)
    \/ \E a \in Aliases : Queue(a)
    \/ \E a \in Aliases, t \in Times : QueueRepeat(a, t)
    \/ \E items \in InterruptItems : Interrupt(items)
    \/ ClearInterrupt
    \/ Advance

Spec == Init /\ [][Next]_vars

(* A recorded run: queue and queue_repeat build the chain of a new         *)
(* controller and are written down; then the player pulls, and every       *)
(* result is written down.                                                 *)
Called(op, times) ==
    [op |-> op, ok |-> last'.ok, songs |-> last'.songs, times |-> times]

RecordedQueue(alias) ==
    /\ trace = <<>>
    /\ Len(calls) < MaxChain
    /\ DoQueue(alias)
    /\ calls' = Append(calls, Called("queue", 0))
    /\ UNCHANGED trace

RecordedQueueRepeat(alias, times) ==
    /\ trace = <<>>
    /\ Len(calls) < MaxChain
    /\ DoQueueRepeat(alias, times)
    /\ calls' = Append(calls, Called("queue_repeat", times))
    /\ UNCHANGED trace

RecordedAdvance ==
    /\ Len(trace) < MaxTrace
    /\ Pull
    /\ trace' = Append(trace, last'.out)
    /\ UNCHANGED calls

NextRecorded ==
    \/ \E a \in AliasesRecorded : RecordedQueue(a)
    \/ \E a \in AliasesRecorded, t \in TimesRecorded :
           RecordedQueueRepeat(a, t)
    \/ RecordedAdvance

SpecRecorded == Init /\ [][NextRecorded]_vars

(* The scheduling runs with an alias the library does not know among the   *)
(* arguments; queue_repeat is called with the largest count.               *)
NextUnknown ==
    \/ \E a \in AliasesRecorded : Play(a)
    \/ \E a \in AliasesRecorded : Queue(a)
    \/ \E a \in AliasesRecorded : QueueRepeat(a, MaxTimes)
    \/ \E items \in InterruptItems : Interrupt(items)
    \/ ClearInterrupt
    \/ Advance

SpecUnknown == Init /\ [][NextUnknown]_vars

(* The runs in which the player's track-ended event is not held back      *)
(* while play runs: play goes line by line, pc naming the line it is to    *)
(* run next, and a pull may come between any two lines.  The other calls   *)
(* are made by the caller of play, so only while no play is running.       *)
PlayBegin(song_alias) ==
    LET songs == get(song_alias)
    IN  /\ pc = "idle"
        /\ last' = Call("play", songs.ok, songs.songs, NoPull)
        /\ pc' = IF songs.ok THEN "new_chain" ELSE "idle"
        /\ play_songs' = songs.songs
        /\ Put(Ctl)
        /\ UNCHANGED <<script, calls, trace>>

PlayNewChain ==
    /\ pc = "new_chain"
    /\ pc' = "set_oracle"
    /\ Put(play_new_chain(Ctl))
    /\ UNCHANGED <<last, script, calls, trace, play_songs>>

PlaySetOracle ==
    /\ pc = "set_oracle"
    /\ pc' = "add"
    /\ Put(play_install(Ctl))
    /\ UNCHANGED <<last, script, calls, trace, play_songs>>

PlayAdd ==
    /\ pc = "add"
    /\ pc' = "clear_interrupt"
    /\ Put(play_add(Ctl, play_songs))
    /\ UNCHANGED <<last, script, calls, trace, play_songs>>

PlayClearInterrupt ==
    /\ pc = "clear_interrupt"
    /\ pc' = "next_song"
    /\ Put(play_clear(Ctl))
    /\ UNCHANGED <<last, script, calls, trace, play_songs>>

PlayNextSong ==
    LET r == play_fetch(Ctl)
    IN  /\ pc = "next_song"
        /\ pc' = "idle"
        /\ last' = Call("play", TRUE, play_songs, r.out)
        /\ Put(r.src)
        /\ script' = Paid(Promise(NoScript, play_songs, 0))
        /\ UNCHANGED <<calls, trace, play_songs>>

QueueIdle(alias) == pc = "idle" /\ Queue(alias)

InterruptIdle(items) == pc = "idle" /\ Interrupt(items)

NextInterleaved ==
    \/ \E a \in Aliases : PlayBegin(a)
    \/ PlayNewChain
    \/ PlaySetOracle
    \/ PlayAdd
    \/ PlayClearInterrupt
    \/ PlayNextSong
    \/ \E a \in Aliases : QueueIdle(a)
    \/ \E items \in InterruptItems : InterruptIdle(items)
    \/ Advance

SpecInterleaved == Init /\ [][NextInterleaved]_vars

(* The device runs: any machine, and the calls on its AudioDevices. *)
Free ==
    LET r == free(devices, native)
    IN  /\ frees < MaxFrees
        /\ devices' = r.devices
        /\ native' = r.native
        /\ dev_ret' = Ended("free", "", NoDevice, "")
        /\ frees' = frees + 1
        /\ asked' = [valid |-> devices.valid]
        /\ UNCHANGED <<enumerated, treevars, libvars>>

Str ==
    /\ dev_ret' = Ended("str", "", NoDevice, devices_str(devices))
    /\ asked' = [valid |-> devices.valid]
    /\ UNCHANGED <<devices, native, enumerated, frees, treevars, libvars>>

DeviceForIndex(index) ==
    /\ dev_ret' = device_for_index(devices, index)
    /\ asked' = [valid |-> devices.valid, index |-> index]
    /\ UNCHANGED <<devices, native, enumerated, frees, treevars, libvars>>

DeviceFromDeviceName(device_name) ==
    /\ dev_ret' = device_from_device_name(devices, device_name)
    /\ asked' = [valid |-> devices.valid, name |-> device_name]
    /\ UNCHANGED <<devices, native, enumerated, frees, treevars, libvars>>

ListDevices(names) ==
    LET r == list_devices(devices, native, names)
    IN  /\ native.next <= MaxEnums
        /\ devices' = r.devices
        /\ native' = r.native
        /\ dev_ret' = r.ret
        /\ enumerated' = names
        /\ frees' = 0
        /\ asked' = [valid |-> devices.valid]
        /\ UNCHANGED <<treevars, libvars>>

NextDevices ==
    \/ Free
    \/ Str
    \/ \E index \in -1 .. MaxDevices : DeviceForIndex(index)
    \/ \E name \in DeviceNames \cup {None} : DeviceFromDeviceName(name)
    \/ \E names \in DeviceLists : ListDevices(names)

InitAnyMachine ==
    InitTree /\ InitLibrary /\ \E names \in DeviceLists : InitDevices(names)

SpecDevices == InitAnyMachine /\ [][NextDevices]_vars

(* The library runs: a caller of MediaLibrary, who may change the objects  *)
(* the get functions hand out.                                             *)
(* The arguments of the calls: a playlist and a song the library has, and  *)
(* a name it has not.                                                      *)
LibNames == {"ab", "zz"}

LibAliases == {"a", "zz"}

LibCall(op, raised, alias, name) ==
    [op |-> op, raised |-> raised, alias |-> alias, name |-> name]

Handed(r, kind, from, arg) ==
    IF r.raised = ""
    THEN [kind |-> kind, ref |-> r.ref, from |-> from, arg |-> arg,
          edits |-> 0]
    ELSE held

GetSong(song_alias) ==
    LET r == get_song_ref(library, objects, song_alias)
    IN  /\ objects' = r.objs
        /\ held' = Handed(r, "song", "get_song", song_alias)
        /\ lib_ret' = LibCall("get_song", r.raised, song_alias, "")
        /\ UNCHANGED <<library, treevars, devvars>>

GetPlaylist(playlist_name) ==
    LET r == get_playlist_ref(library, objects, playlist_name)
    IN  /\ objects' = r.objs
        /\ held' = Handed(r, "list", "get_playlist", playlist_name)
        /\ lib_ret' = LibCall("get_playlist", r.raised, "", playlist_name)
        /\ UNCHANGED <<library, treevars, devvars>>

Get(name) ==
    LET r == get_ref(library, objects, name)
    IN  /\ objects' = r.objs
        /\ held' = Handed(r, "list", "get", name)
        /\ lib_ret' = LibCall("get", r.raised, "", name)
        /\ UNCHANGED <<library, treevars, devvars>>

(* The caller changes the list it was handed: append, pop(0), clear. *)
EditList(edit) ==
    /\ held.kind = "list"
    /\ held.edits < MaxEdits
    /\ edit = "pop" => objects.lists[held.ref] # <<>>
    /\ objects' = [objects EXCEPT !.lists[held.ref] =
                       IF edit = "append" THEN Append(@, "c")
                       ELSE IF edit = "pop" THEN Tail(@)
                       ELSE <<>>]
    /\ held' = [held EXCEPT !.edits = @ + 1]
    /\ lib_ret' = LibCall("edit", "", "", "")
    /\ UNCHANGED <<library, treevars, devvars>>

(* The caller changes the Song it was handed: its uri, alias or            *)
(* description.                                                            *)
EditSong(field) ==
    /\ held.kind = "song"
    /\ held.edits < MaxEdits
    /\ objects' = [objects EXCEPT !.songs[held.ref] =
                       IF field = "uri" THEN [@ EXCEPT !.uri = "zz.mp3"]
                       ELSE IF field = "alias" THEN [@ EXCEPT !.alias = "zz"]
                       ELSE [@ EXCEPT !.description = "edited"]]
    /\ held' = [held EXCEPT !.edits = @ + 1]
    /\ lib_ret' = LibCall("edit", "", "", "")
    /\ UNCHANGED <<library, treevars, devvars>>

CreatePlaylist(playlist_name, expect_overwrite) ==
    LET r == create_playlist(library, objects, playlist_name,
                             expect_overwrite)
    IN  /\ library' = r.lib
        /\ objects' = r.objs
        /\ lib_ret' = LibCall("create_playlist", r.raised, "", playlist_name)
        /\ UNCHANGED <<held, treevars, devvars>>

AddSongToPlaylist(song_alias, playlist_name) ==
    LET r == add_song_to_playlist(library, objects, song_alias,
                                  playlist_name)
    IN  /\ playlist_name \in DOMAIN library.playlists =>
               Len(objects.lists[library.playlists[playlist_name]])
                   < MaxPlaylist
        /\ library' = r.lib
        /\ objects' = r.objs
        /\ lib_ret' = LibCall("add_song_to_playlist", r.raised, song_alias,
                              playlist_name)
        /\ UNCHANGED <<held, treevars, devvars>>

RemoveFromPlaylist(song_alias, playlist_name) ==
    LET r == remove_from_playlist(library, objects, song_alias,
                                  playlist_name)
    IN  /\ library' = r.lib
        /\ objects' = r.objs
        /\ lib_ret' = LibCall("remove_from_playlist", r.raised, song_alias,
                              playlist_name)
        /\ UNCHANGED <<held, treevars, devvars>>

NextLibrary ==
    \/ \E a \in LibAliases : GetSong(a)
    \/ \E n \in LibNames : GetPlaylist(n)
    \/ \E n \in LibNames \cup LibAliases : Get(n)
    \/ \E edit \in {"append", "pop", "clear"} : EditList(edit)
    \/ \E field \in {"uri", "alias", "description"} : EditSong(field)
    \/ \E n \in {"ab", ""}, o \in BOOLEAN : CreatePlaylist(n, o)
    \/ \E a \in LibAliases, n \in LibNames : AddSongToPlaylist(a, n)
    \/ \E a \in LibAliases, n \in LibNames : RemoveFromPlaylist(a, n)

SpecLibrary == Init /\ [][NextLibrary]_vars

----------------------------------------------------------------------------
(* The claims. *)

(* The results of the next n pulls from the root, were nothing else called. *)
RECURSIVE Drain(_, _)
Drain(c, n) ==
    IF n = 0 THEN <<>>
    ELSE LET r == RootAdvance(c) IN <<r.out>> \o Drain(r.src, n - 1)

(* The chain the switch oracle delegates to, and the child at its cursor. *)
Active == heap[switch_oracle]

AtChild == Active.idx < Len(Active.oracles)

Child == Active.oracles[Active.idx + 1]

(* C1: interrupt priority.  Whatever state the fallback tree is in, the    *)
(* items pending in the interrupt queue are what the next pulls return, in *)
(* the order they were enqueued: after interrupt(items) the pulls return   *)
(* the items that were already pending and then items, before anything of  *)
(* the fallback; and a pull made while an interrupt item is pending        *)
(* returns the front one.                                                  *)
C1_InterruptPriority ==
    [][ /\ last'.op = "interrupt" =>
               Drain(Ctl', Len(interrupt_oracle) + Len(last'.songs))
                   = interrupt_oracle \o last'.songs
        /\ (last'.op = "advance" /\ interrupt_oracle # <<>>) =>
               /\ last'.out = Head(interrupt_oracle)
               /\ Drain(Ctl', Len(interrupt_oracle) - 1)
                      = Tail(interrupt_oracle)
      ]_vars

(* interrupt([a, b]) has been called while the fallback is inside an       *)
(* unlimited repeat with a sibling queued behind it.                       *)
C1_Witness ==
    /\ last.op = "interrupt"
    /\ last.songs = <<"a.mp3", "b.mp3">>
    /\ interrupt_oracle = <<"a.mp3", "b.mp3">>
    /\ AtChild
    /\ Child.kind = "repeat" /\ Child.times = Unlimited /\ Child.idx = 1

(* C2: play is a destructive reset.  Right after play(items) the item it   *)
(* fetched and the results of the following pulls are exactly items, in    *)
(* order, and then nothing: nothing of the chain it replaced is returned.  *)
C2_PlayResets ==
    (last.op = "play" /\ last.ok) =>
        <<last.out>> \o Drain(Ctl, Len(last.songs) + 1)
            = last.songs \o <<None, None>>

(* play([a, b]) was called on a chain that still had something to play. *)
C2_Witness ==
    /\ last.op = "play"
    /\ last.cut
    /\ last.songs = <<"a.mp3", "b.mp3">>

(* C3: play clears the pending interrupt items.  After play has returned   *)
(* the interrupt queue is empty, and the item it fetched is items[0]       *)
(* (nothing for an empty list), not a stale interrupt item.                *)
C3_PlayClearsInterrupts ==
    (last.op = "play" /\ last.ok) =>
        /\ interrupt_oracle = <<>>
        /\ last.out = IF last.songs = <<>> THEN None ELSE Head(last.songs)

(* play of a non-empty list was called with interrupt items pending. *)
C3_Witness ==
    /\ last.op = "play"
    /\ last.stale
    /\ last.songs # <<>>

(* C4: chain order.  While only finite children have been appended, every  *)
(* pull that falls through to the chain returns the next item of the       *)
(* concatenation of the children's full result sequences, in the order     *)
(* they were appended, and nothing once that is used up; and short of a    *)
(* play, which replaces the chain, the chain's cursor never moves back.    *)
C4_ChainOrder ==
    [][ /\ (last'.op = "advance" /\ interrupt_oracle = <<>>
              /\ script.loop = <<>>) => last'.out = Owed(script)
        /\ ~(last'.op = "play" /\ last'.ok) => Active'.idx >= Active.idx
      ]_vars

(* The second child of a chain, appended while the first was being played, *)
(* has returned an item, and a further child's worth is still owed.        *)
C4_Witness ==
    /\ last.op = "advance"
    /\ last.out # None
    /\ script.loop = <<>>
    /\ script.pre # <<>>
    /\ Active.idx = 1
    /\ Active.oracles[1].idx > 0
    /\ Child.idx > 0

(* C5: queue after exhaustion.  When the interrupt queue is empty and the  *)
(* cursor of the active chain is past its last child, queue(items) with a  *)
(* non-empty list makes the next pull return items[0].                     *)
C5_QueueAfterExhaustion ==
    [][ (/\ interrupt_oracle = <<>>
         /\ ~AtChild
         /\ last'.op = "queue" /\ last'.ok /\ last'.songs # <<>>)
        => Drain(Ctl', 1) = <<Head(last'.songs)>>
      ]_vars

(* queue of a non-empty list on a chain whose cursor had run past its one  *)
(* child.                                                                  *)
C5_Witness ==
    /\ last.op = "queue" /\ last.ok /\ last.songs # <<>>
    /\ interrupt_oracle = <<>>
    /\ Len(Active.oracles) = 2
    /\ Active.idx = 1

(* C8: unlimited repeat is terminal.  Once everything appended before a    *)
(* queue_repeat(items, None) with non-empty items has been returned, every *)
(* pull that falls through to the chain returns the next item of items,    *)
(* cycling in order, never nothing and never an item of a sibling queued   *)
(* behind it; and once the cursor is at that child only play moves it.     *)
C8_UnlimitedRepeatTerminal ==
    [][ /\ (/\ script.pre = <<>> /\ script.loop # <<>>
            /\ last'.op = "advance" /\ interrupt_oracle = <<>>)
           => /\ last'.out = Head(script.loop)
              /\ script'.loop = Tail(script.loop) \o <<Head(script.loop)>>
        /\ (/\ AtChild /\ Child.kind = "repeat" /\ Child.times = Unlimited
            /\ Child.songs # <<>>
            /\ ~(last'.op = "play" /\ last'.ok))
           => /\ Active'.idx = Active.idx
              /\ Child'.songs = Child.songs /\ Child'.times = Unlimited
      ]_vars

(* The unlimited repeat of [a, b] has wrapped around and returned a again, *)
(* with a sibling queued behind it.                                        *)
C8_Witness ==
    /\ last.op = "advance" /\ last.out = "a.mp3"
    /\ AtChild /\ Child.kind = "repeat" /\ Child.times = Unlimited
    /\ Child.songs = <<"a.mp3", "b.mp3">> /\ Child.idx = 1
    /\ Len(Active.oracles) > Active.idx + 1
    /\ script.loop = <<"b.mp3", "a.mp3">>

----------------------------------------------------------------------------
(* Claims about one source, checked on recorded runs.                      *)

Min(a, b) == IF a < b THEN a ELSE b

(* C6: a PlaylistOracle built from N items returns exactly these N items,  *)
(* in order, one per pull, and nothing on every pull after them; its       *)
(* cursor is the number of items returned, so it never decreases.          *)
C6_PlaylistSource ==
    (Len(calls) = 1 /\ calls[1].op = "queue" /\ calls[1].ok) =>
        LET songs == calls[1].songs
        IN  /\ \A k \in 1 .. Len(trace) :
                   trace[k] = IF k <= Len(songs) THEN songs[k] ELSE None
            /\ Len(Active.oracles) = 1
            /\ Active.oracles[1].idx = Min(Len(trace), Len(songs))

(* queue of [a, b] alone: a, b, then nothing twice. *)
C6_Witness ==
    /\ Len(calls) = 1 /\ calls[1].op = "queue"
    /\ trace = <<"a.mp3", "b.mp3", None, None>>

(* C7: a RepeatingOracle built from L > 0 items and a finite repeat count  *)
(* R returns the sequence R + 1 times over, L * (R + 1) items, and then    *)
(* nothing.                                                                *)
C7_RepeatingSource ==
    (/\ Len(calls) = 1 /\ calls[1].op = "queue_repeat" /\ calls[1].ok
     /\ calls[1].times # Unlimited /\ calls[1].songs # <<>>) =>
        LET songs == calls[1].songs
            L == Len(songs)
            R == calls[1].times
        IN  \A k \in 1 .. Len(trace) :
                trace[k] = IF k <= L * (R + 1)
                           THEN songs[((k - 1) % L) + 1]
                           ELSE None

(* queue_repeat([a, b], times=1) on an empty chain: a, b, a, b, nothing. *)
C7_Witness ==
    /\ Len(calls) = 1 /\ calls[1].op = "queue_repeat" /\ calls[1].times = 1
    /\ trace = <<"a.mp3", "b.mp3", "a.mp3", "b.mp3", None>>

(* C9: an empty item sequence is exhausted from the start, whatever the    *)
(* kind of oracle and the repeat count: alone in the chain every pull      *)
(* returns nothing, and with a sibling behind it the first pull returns    *)
(* the sibling's first result.                                             *)
C9_EmptySequence ==
    (Len(calls) >= 1 /\ calls[1].ok /\ calls[1].songs = <<>>) =>
        /\ Len(calls) = 1 => \A k \in 1 .. Len(trace) : trace[k] = None
        /\ (Len(calls) = 2 /\ calls[2].ok /\ Len(trace) >= 1) =>
               trace[1] = IF calls[2].songs = <<>> THEN None
                          ELSE Head(calls[2].songs)

(* An unlimited repeat of the empty list with [c] queued behind it: the    *)
(* pulls returned c and then nothing.                                      *)
C9_Witness ==
    /\ Len(calls) = 2
    /\ calls[1].op = "queue_repeat" /\ calls[1].times = Unlimited
    /\ calls[1].songs = <<>>
    /\ trace = <<"c.mp3", None>>

----------------------------------------------------------------------------
(* Claims about the device registry, checked on the device runs.           *)

(* C10: use after release.  A call of device_for_index,                    *)
(* device_from_device_name or str on an AudioDevices that has been freed   *)
(* ends in the use-after-release condition (UseAfterFreeException, or the  *)
(* "already freed" text for str), never in a device or a listing.          *)
C10_UseAfterRelease ==
    (/\ ~devices.valid
     /\ dev_ret.op \in {"device_for_index", "device_from_device_name", "str"})
    => \/ dev_ret.raised = "UseAfterFreeException"
       \/ dev_ret.op = "str" /\ dev_ret.text = FREED_ERROR_STRING

----------------------------------------------------------------------------
(* The device list: release, re-enumeration, lookups. *)

(* How many times the native release call was made for a handle. *)
Released(ptr) ==
    Cardinality({i \in 1 .. Len(native.released) : native.released[i] = ptr})

(* C11: however many times free() is called on one AudioDevices object,    *)
(* the native release call is made exactly once for its handle, by the     *)
(* first call; later calls return normally, release nothing, and the       *)
(* object stays freed.                                                     *)
C11_ReleaseIdempotent ==
    /\ Released(devices.device_list_ptr) = (IF frees > 0 THEN 1 ELSE 0)
    /\ devices.valid <=> frees = 0
    /\ frees > 0 => devices.device_list_ptr \notin native.live
    /\ dev_ret.op = "free" => dev_ret.raised = ""

(* free() was called a second time on a freed object. *)
C11_Witness ==
    /\ dev_ret.op = "free"
    /\ ~asked.valid
    /\ frees >= 2

(* C12: at most one native device list of the controller is unreleased at  *)
(* any moment; list_devices releases the old list before it enumerates     *)
(* (nothing is live once its free() has run), every handle handed out      *)
(* earlier has been released exactly once, and after list_devices the      *)
(* controller holds the new list, valid.                                   *)
C12_SingleLiveSnapshot ==
    /\ Cardinality(native.live) <= 1
    /\ native.live = (IF devices.valid THEN {devices.device_list_ptr} ELSE {})
    /\ free(devices, native).native.live = {}
    /\ \A ptr \in 1 .. native.next - 1 :
           ptr # devices.device_list_ptr => Released(ptr) = 1
    /\ dev_ret.op = "list_devices" =>
           /\ devices.valid
           /\ devices.device_list_ptr = native.next - 1
           /\ DOMAIN devices.user_device_map = 0 .. Len(enumerated) - 1

(* list_devices has re-enumerated for the second time. *)
C12_Witness ==
    /\ dev_ret.op = "list_devices"
    /\ Len(native.released) >= 2
    /\ native.live = {devices.device_list_ptr}

C19_DeviceForIndex ==
    [][dev_ret'.op = "device_for_index" =>
          LET i == asked'.index
          IN  /\ devices' = devices
              /\ native' = native
              /\ asked'.valid = devices.valid
              /\ IF ~devices.valid
                 THEN dev_ret'.raised = "UseAfterFreeException"
                 ELSE IF 0 <= i /\ i < Len(enumerated)
                 THEN /\ dev_ret'.raised = ""
                      /\ dev_ret'.device =
                             AudioDevice(NativeRecord(enumerated[i + 1]))
                 ELSE dev_ret'.raised = "KeyError"]_vars

(* An index no device has was looked up on a freed object: the            *)
(* use-after-free exception came first.                                    *)
C19_Witness ==
    /\ dev_ret.op = "device_for_index"
    /\ ~asked.valid
    /\ asked.index >= Len(enumerated)
    /\ dev_ret.raised = "UseAfterFreeException"

----------------------------------------------------------------------------
(* The interrupt queue and the fallback. *)

(* The results of the next n pulls from the fallback (the switch oracle). *)
RECURSIVE FallbackDrain(_, _)
FallbackDrain(c, n) ==
    IF n = 0 THEN <<>>
    ELSE LET r == SwitchAdvance(c) IN <<r.out>> \o FallbackDrain(r.src, n - 1)

(* The fallback tree is as it was: the switch's oracle, the chains, their *)
(* children, every cursor and repeat counter.                              *)
FallbackKept ==
    /\ heap' = heap
    /\ switch_oracle' = switch_oracle
    /\ queueing_oracle' = queueing_oracle

(* C14: clear_interrupt() empties the interrupt queue and changes nothing  *)
(* of the fallback tree: the pulls that follow return what the fallback    *)
(* would have returned from where it stood.                                *)
C14_ClearKeepsFallback ==
    [][last'.op = "clear_interrupt" =>
          /\ interrupt_oracle' = <<>>
          /\ FallbackKept
          /\ Drain(Ctl', MaxChain) = FallbackDrain(Ctl, MaxChain)
      ]_vars

(* clear_interrupt() was called with interrupt items pending while the     *)
(* fallback was part-way through its second child.                         *)
C14_Witness ==
    /\ last.op = "clear_interrupt"
    /\ last.stale
    /\ Active.idx = 1
    /\ AtChild
    /\ Child.idx > 0

(* C15: interrupt(items), and the pulls that return interrupt items, leave *)
(* the fallback tree as it was; once the interrupt queue is drained the    *)
(* next pull returns the item the fallback would have returned before.     *)
C15_InterruptKeepsFallback ==
    [][(\/ last'.op = "interrupt"
        \/ last'.op = "advance" /\ interrupt_oracle # <<>>) =>
          /\ FallbackKept
          /\ script' = script
          /\ Drain(Ctl', Len(interrupt_oracle') + 1)
                 = interrupt_oracle' \o FallbackDrain(Ctl, 1)
      ]_vars

(* A pull has returned c, which is not of the chain, so an interrupt item, *)
(* and the queue is drained, while the chain is part-way through [a, b]    *)
(* and owes b next.                                                        *)
C15_Witness ==
    /\ last.op = "advance"
    /\ last.out = "c.mp3"
    /\ interrupt_oracle = <<>>
    /\ \A k \in 1 .. Len(Active.oracles) :
           Active.oracles[k].songs = <<"a.mp3", "b.mp3">>
    /\ AtChild
    /\ Child.idx = 1
    /\ Owed(script) = "b.mp3"

(* C16: once a pull from the root has returned nothing, every further pull *)
(* returns nothing, until play, queue, queue_repeat or interrupt is called *)
(* (clear_interrupt in between changes nothing).                           *)
C16_ExhaustionIdempotent ==
    (last.op = "advance" /\ last.out = None) =>
        /\ interrupt_oracle = <<>>
        /\ Drain(Ctl, MaxTrace) = [k \in 1 .. MaxTrace |-> None]
        /\ Drain(clear_interrupt(Ctl), MaxTrace) = [k \in 1 .. MaxTrace |-> None]

(* A chain of two children, the second a finite repeat of [a, b], has been *)
(* played to its end and a pull has returned nothing.                      *)
C16_Witness ==
    /\ last.op = "advance"
    /\ last.out = None
    /\ Len(Active.oracles) = 2
    /\ Active.oracles[2].kind = "repeat"
    /\ Active.oracles[2].songs = <<"a.mp3", "b.mp3">>
    /\ Active.oracles[2].idx = 2
    /\ Active.oracles[2].times = 0

(* C18: after every controller operation the controller's queueing_oracle *)
(* is the chain the switch oracle delegates to, and the switch oracle is   *)
(* what the root falls back to; so queue and queue_repeat append to the    *)
(* chain the pulls are served from.                                        *)
C18_Mirror ==
    /\ queueing_oracle = switch_oracle
    /\ switch_oracle \in DOMAIN heap
    /\ interrupt_oracle = <<>> => RootAdvance(Ctl) = SwitchAdvance(Ctl)
    /\ (last.op \in {"queue", "queue_repeat"} /\ last.ok) =>
           /\ Active.oracles # <<>>
           /\ Active.oracles[Len(Active.oracles)].songs = last.songs
           /\ Active.oracles[Len(Active.oracles)].idx = 0

(* queue(c) appended behind a first child that is being played. *)
C18_Witness ==
    /\ last.op = "queue"
    /\ last.ok
    /\ last.songs = <<"c.mp3">>
    /\ Len(Active.oracles) = 2
    /\ Active.oracles[1].idx > 0
    /\ Active.oracles[2].songs = <<"c.mp3">>

----------------------------------------------------------------------------
(* Unknown aliases. *)

(* C20: play, queue and queue_repeat called with an alias that is neither  *)
(* a playlist nor a song raise NotFoundException and leave the scheduling  *)
(* state as it was: the same chain under the switch, the same children and *)
(* cursors, the same pending interrupt items, and nothing fetched.         *)
C20_ResolveFirst ==
    [][ /\ \A a \in AliasesRecorded :
               (a \notin DOMAIN playlists /\ a \notin DOMAIN song_map)
                   => ~get(a).ok
        /\ (last'.op \in {"play", "queue", "queue_repeat"} /\ ~last'.ok) =>
               /\ FallbackKept
               /\ interrupt_oracle' = interrupt_oracle
               /\ last'.out = NoPull
               /\ script' = script
               /\ Drain(Ctl', MaxTrace) = Drain(Ctl, MaxTrace)
      ]_vars

(* play has raised NotFoundException with an interrupt item pending and    *)
(* the chain part-way through its second child.                            *)
C20_Witness ==
    /\ last.op = "play"
    /\ ~last.ok
    /\ interrupt_oracle # <<>>
    /\ Active.idx = 1
    /\ AtChild
    /\ Child.idx > 0

----------------------------------------------------------------------------
(* The media library. *)

(* What get_song, get_playlist and get answer in a state of the library:   *)
(* the exception raised, or the value of the object returned.              *)
SongResult(lib, objs, song_alias) ==
    LET r == get_song_ref(lib, objs, song_alias)
    IN  [raised |-> r.raised,
         value |-> IF r.raised = "" THEN r.objs.songs[r.ref] ELSE Song("", "")]

PlaylistResult(lib, objs, playlist_name) ==
    LET r == get_playlist_ref(lib, objs, playlist_name)
    IN  [raised |-> r.raised,
         value |-> IF r.raised = "" THEN r.objs.lists[r.ref] ELSE <<>>]

GetResult(lib, objs, name) ==
    LET r == get_ref(lib, objs, name)
    IN  [raised |-> r.raised,
         value |-> IF r.raised = "" THEN r.objs.lists[r.ref] ELSE <<>>]

(* The identities of the objects the library's dicts refer to. *)
Stored(lib) ==
    {lib.song_map[a] : a \in DOMAIN lib.song_map}
        \cup {lib.playlists[n] : n \in DOMAIN lib.playlists}

(* C17: the object a get function hands out is not one the library holds,  *)
(* so when the caller changes the list returned by get_playlist or get, or *)
(* the Song returned by get_song, get_playlist, get and get_song answer    *)
(* every argument as they did before the change.                           *)
C17_DefensiveCopies ==
    [][lib_ret'.op = "edit" =>
          /\ held.ref \notin Stored(library)
          /\ library' = library
          /\ \A a \in LibAliases :
                 SongResult(library', objects', a)
                     = SongResult(library, objects, a)
          /\ \A n \in LibNames :
                 PlaylistResult(library', objects', n)
                     = PlaylistResult(library, objects, n)
          /\ \A n \in LibNames \cup LibAliases :
                 GetResult(library', objects', n)
                     = GetResult(library, objects, n)
      ]_vars

(* The caller has emptied, in two steps, the list get_playlist("ab")       *)
(* returned; the library still has [a, b].                                 *)
C17_Witness ==
    /\ lib_ret.op = "edit"
    /\ held.from = "get_playlist"
    /\ held.arg = "ab"
    /\ held.edits = 2
    /\ objects.lists[held.ref] = <<>>
    /\ objects.lists[library.playlists["ab"]] = <<"a", "b">>

(* The value of the list the library holds under a name. *)
StoredPlaylist(lib, objs, playlist_name) ==
    objs.lists[lib.playlists[playlist_name]]

(* C22: remove_from_playlist(song_alias, playlist_name), on a playlist the *)
(* library has and that contains song_alias, returns normally and leaves   *)
(* get_playlist(playlist_name) answering the previous list without its     *)
(* first song_alias, the other playlists and the song map as they were.    *)
C22_RemoveFromStored ==
    [][(/\ lib_ret'.op = "remove_from_playlist"
        /\ lib_ret'.name \in DOMAIN library.playlists
        /\ \E k \in 1 .. Len(StoredPlaylist(library, objects, lib_ret'.name)) :
               StoredPlaylist(library, objects, lib_ret'.name)[k]
                   = lib_ret'.alias) =>
          /\ lib_ret'.raised = ""
          /\ PlaylistResult(library', objects', lib_ret'.name).value
                 = RemoveFirst(StoredPlaylist(library, objects, lib_ret'.name),
                               lib_ret'.alias)
          /\ library'.song_map = library.song_map
          /\ objects'.songs = objects.songs
          /\ \A n \in DOMAIN library.playlists \ {lib_ret'.name} :
                 /\ n \in DOMAIN library'.playlists
                 /\ StoredPlaylist(library', objects', n)
                        = StoredPlaylist(library, objects, n)
      ]_vars

----------------------------------------------------------------------------
(* play and the player's track-ended event. *)

(* C21: a pull from the root that comes between two lines of               *)
(* play(song_alias), the alias resolving to a non-empty list, does not     *)
(* return nothing for having found the chain play has just installed       *)
(* still empty, and does not return an interrupt item that play has yet    *)
(* to clear.                                                               *)
C21_PlayToleratesPull ==
    [][(/\ pc # "idle" /\ pc' = pc
        /\ play_songs # <<>>
        /\ last'.op = "advance") =>
          /\ (pc = "add" /\ Active.oracles = <<>>) => last'.out # None
          /\ pc \in {"new_chain", "set_oracle", "add", "clear_interrupt"} =>
                 interrupt_oracle = <<>>
      ]_vars

====
